---- MODULE Spec2Model ----
(***************************************************************************)
(* Model of maker (src/main.go): the Makefile template, its execution by   *)
(* the template engine against the flag map, the blank-line normalisation, *)
(* and the sequence of filesystem calls main() performs.                   *)
(*                                                                         *)
(* Text is a sequence of tokens.  A token is either NL (one newline        *)
(* character) or the content of one piece of a line (no newline inside).   *)
(* Two content tokens that follow each other without an NL between them    *)
(* are on the same line of the output.                                     *)
(*                                                                         *)
(* The template contains no action that prints a value ({{.x}}), only      *)
(* if/else/end, and no '<', so html/template leaves every text node as it  *)
(* is written.                                                             *)
(***************************************************************************)
EXTENDS Integers, Sequences, FiniteSets, TLC

\* ------------------------------------------------------------------ bounds
\* positional arguments given on the command line range over 0..MaxArgs
MaxArgs == 2

\* ---------------------------------------------------------- template items
NL == "\n"

T(s) == [k |-> "text", s |-> s, cond |-> "", ltrim |-> FALSE]
If(c, lt) == [k |-> "if", s |-> "", cond |-> c, ltrim |-> lt]
Else == [k |-> "else", s |-> "", cond |-> "", ltrim |-> FALSE]
End == [k |-> "end", s |-> "", cond |-> "", ltrim |-> FALSE]

\* the text tokens of the template, named where a property refers to them
FmtHdr == "fmt: phony ## format the codes"
LintHdr == "lint: phony fmt ## lint the codes"
VetHdr == "vet: phony lint ## vet the codes"
VetCmd == "\t@go vet ./..."
ShadowCmd == "\t@shadow ./..."
BuildBinHdr == "build: phony vet | $(BIN) ## build the binary"
RunHdr == "run: phony vet ## run the binary"
BuildLibHdr == "build: phony vet ## build the library"
CleanHdr == "clean: phony"
CleanCmd == "\trm -rf $(BIN)"
TestHdr == "test: phony vet ## test the codes"
BenchHdr == "bench: phony vet ## test with benchmarks"
CoverHdr == "test-cover: phony vet ## test with coverage"
CoverCmd == "\t@go test -v -cover ./..."
CoverHTMLHdr == "test-cover-html: phony vet ## test with coverage in an HTML view"
CoverHTMLCmd1 == "\t@go test -v -cover -coverprofile=c.out ./..."
CoverHTMLCmd2 == "\t@go tool cover -html=c.out"
TestRaceHdr == "test-race: phony vet ## test and check for race conditions"
BuildRaceHdr == "build-race: phony vet ## build and check for race conditions"
CpuHdr == "test-cpu: phony vet ## test and profile CPU"
MemHdr == "test-mem: phony vet ## test and profile memory"
GoTestPrefix == "\t@go test "
BenchFlags == "-bench=. -benchmem"
CpuTail == " -cpuprofile cpu.out ./..."
MemTail == " -memprofile mem.out ./..."
HelpHdr == "help: phony ## print this help message"

Preamble ==
  << T(".DEFAULT_GOAL := help"), T(NL), T(NL),
     T("BIN = $(CURDIR)/bin"), T(NL),
     T("VERSION ?= $(shell git describe --tags --always --dirty --match=v* 2> /dev/null || echo v0)"), T(NL), T(NL),
     T("$(BIN):"), T(NL),
     T("\t@mkdir -p $@"), T(NL), T(NL),
     T(".PHONY:phony"), T(NL), T(NL) >>

FmtFrag ==
  << T(FmtHdr), T(NL), T("\t@go fmt ./..."), T(NL), T(NL) >>

LintFrag ==
  << T(LintHdr), T(NL), T("\t@golint ./..."), T(NL), T(NL) >>

VetFrag ==
  << T(VetHdr), T(NL), T(VetCmd), T(NL),
     If("shadow", TRUE), T(ShadowCmd), End, T(NL), T(NL) >>

BuildFrag ==
  << If("notLibrary", FALSE), T(NL),
     T(BuildBinHdr), T(NL),
     T("\t@go build \\"), T(NL),
     T("\t\t-tags release \\"), T(NL),
     T("\t\t-ldflags '-X main.Version=$(VERSION)' \\"), T(NL),
     T("\t\t-o $(BIN)/ ./..."), T(NL), T(NL),
     T(RunHdr), T(NL),
     T("\t@go run main.go"), T(NL),
     Else, T(NL),
     T(BuildLibHdr), T(NL),
     T("\t@go build ./..."), T(NL),
     End, T(NL), T(NL) >>

CleanFrag ==
  << T(CleanHdr), T(NL), T(CleanCmd), T(NL), T(NL) >>

TestFrag ==
  << If("test", TRUE), T(NL),
     T(TestHdr), T(NL), T("\t@go test -v ./..."), T(NL),
     End, T(NL), T(NL) >>

BenchFrag ==
  << If("bench", TRUE), T(NL),
     T(BenchHdr), T(NL), T("\t@go test -v -bench=. -benchmem ./..."), T(NL),
     End, T(NL), T(NL) >>

CoverFrag ==
  << If("testAndCover", TRUE), T(NL),
     T(CoverHdr), T(NL), T(CoverCmd), T(NL),
     End, T(NL), T(NL) >>

CoverHTMLFrag ==
  << If("testAndCoverHTML", TRUE), T(NL),
     T(CoverHTMLHdr), T(NL), T(CoverHTMLCmd1), T(NL), T(CoverHTMLCmd2), T(NL),
     End, T(NL), T(NL) >>

TestRaceFrag ==
  << If("testRace", TRUE), T(NL),
     T(TestRaceHdr), T(NL), T("\t@go test -race ./..."), T(NL),
     End, T(NL), T(NL) >>

BuildRaceFrag ==
  << If("race", TRUE), T(NL),
     T(BuildRaceHdr), T(NL), T("\t@go build -race"), T(NL),
     End, T(NL), T(NL) >>

CpuFrag ==
  << If("cpuProfile", TRUE), T(NL),
     T(CpuHdr), T(NL),
     T(GoTestPrefix), If("bench", FALSE), T(BenchFlags), End, T(CpuTail), T(NL),
     T("\t@go tool pprof cpu.out"), T(NL),
     End, T(NL), T(NL) >>

MemFrag ==
  << If("memProfile", TRUE), T(NL),
     T(MemHdr), T(NL),
     T(GoTestPrefix), If("bench", FALSE), T(BenchFlags), End, T(MemTail), T(NL),
     T("\t@go tool pprof mem.out"), T(NL),
     End, T(NL), T(NL) >>

HelpFrag ==
  << T("GREEN  := $(shell tput -Txterm setaf 2)"), T(NL),
     T("RESET  := $(shell tput -Txterm sgr0)"), T(NL), T(NL),
     T(HelpHdr), T(NL),
     T("\t@awk -F ':|##' '/^[^\\t].+?:.*?##/ { printf \"${GREEN}%-20s${RESET}%s\\n\", $$1, $$NF }' $(MAKEFILE_LIST)"), T(NL) >>

\* mutation: the bench block declared before the test block
makefileTemplate_benchFirst ==
  Preamble \o FmtFrag \o LintFrag \o VetFrag \o BuildFrag \o CleanFrag
    \o BenchFrag \o TestFrag \o CoverFrag \o CoverHTMLFrag \o TestRaceFrag
    \o BuildRaceFrag \o CpuFrag \o MemFrag \o HelpFrag

makefileTemplate ==
  Preamble \o FmtFrag \o LintFrag \o VetFrag \o BuildFrag \o CleanFrag
    \o TestFrag \o BenchFrag \o CoverFrag \o CoverHTMLFrag \o TestRaceFrag
    \o BuildRaceFrag \o CpuFrag \o MemFrag \o HelpFrag

\* ------------------------------------------------------ template engine
\* white space as the lexer's trim markers see it; every space or tab of the
\* template sits inside a content token that ends in a non-space character
\* wherever a "{{- " follows, so only NL tokens are ever trimmed
IsSpace(tok) == tok = NL

\* "{{- " removes the white space that ends the text before the action
Trimmed(items, i) ==
  /\ items[i].k = "text"
  /\ IsSpace(items[i].s)
  /\ \E j \in (i + 1)..Len(items) :
       /\ items[j].k # "text"
       /\ items[j].ltrim
       /\ \A m \in i..(j - 1) : items[m].k = "text" /\ IsSpace(items[m].s)

\* number of {{if}} actions open before item i
Depth(items, i) ==
  Cardinality({j \in 1..(i - 1) : items[j].k = "if"})
    - Cardinality({j \in 1..(i - 1) : items[j].k = "end"})

\* the branches item i lies in: for each {{if}} still open at i, its pipeline
\* and whether i is in its {{else}} list
Branches(items, i) ==
  LET d == [m \in 1..Len(items) |-> Depth(items, m)]
      open == {j \in 1..(i - 1) :
                 /\ items[j].k = "if"
                 /\ \A m \in (j + 1)..i : d[m] > d[j]}
  IN { [cond |-> items[j].cond,
        neg |-> \E e \in (j + 1)..(i - 1) :
                   items[e].k = "else" /\ d[e] = d[j] + 1] : j \in open }

\* the parsed template: its text nodes in order, trimmed, each with the
\* branches of the {{if}} nodes it hangs under
Parse(items) ==
  LET nodes == [i \in 1..Len(items) |->
                  [s |-> items[i].s,
                   keep |-> items[i].k = "text" /\ ~Trimmed(items, i),
                   branches |-> Branches(items, i)]]
      Kept(n) == n.keep
  IN SelectSeq(nodes, Kept)

\* mutation: `not .library` read as `.library`
Eval_missingNot(cond, data) ==
  CASE cond = "shadow" -> data.shadow
    [] cond = "notLibrary" -> data.library
    [] cond = "test" -> data.test
    [] cond = "bench" -> data.bench
    [] cond = "testAndCover" -> data.test /\ data.cover
    [] cond = "testAndCoverHTML" -> data.test /\ data.coverHTML
    [] cond = "testRace" -> data.testRace
    [] cond = "race" -> data.race
    [] cond = "cpuProfile" -> data.cpuProfile
    [] cond = "memProfile" -> data.memProfile

\* mutation: `and` read as `or`
Eval_andAsOr(cond, data) ==
  CASE cond = "shadow" -> data.shadow
    [] cond = "notLibrary" -> ~data.library
    [] cond = "test" -> data.test
    [] cond = "bench" -> data.bench
    [] cond = "testAndCover" -> data.test \/ data.cover
    [] cond = "testAndCoverHTML" -> data.test \/ data.coverHTML
    [] cond = "testRace" -> data.testRace
    [] cond = "race" -> data.race
    [] cond = "cpuProfile" -> data.cpuProfile
    [] cond = "memProfile" -> data.memProfile

\* mutation: the profiling blocks gated by bench as well
Eval_profileOnBench(cond, data) ==
  CASE cond = "shadow" -> data.shadow
    [] cond = "notLibrary" -> ~data.library
    [] cond = "test" -> data.test
    [] cond = "bench" -> data.bench
    [] cond = "testAndCover" -> data.test /\ data.cover
    [] cond = "testAndCoverHTML" -> data.test /\ data.coverHTML
    [] cond = "testRace" -> data.testRace
    [] cond = "race" -> data.race
    [] cond = "cpuProfile" -> data.cpuProfile \/ data.bench
    [] cond = "memProfile" -> data.memProfile \/ data.bench

\* the pipelines of the template's {{if}} actions, against the flag map
Eval(cond, data) ==
  CASE cond = "shadow" -> data.shadow
    [] cond = "notLibrary" -> ~data.library
    [] cond = "test" -> data.test
    [] cond = "bench" -> data.bench
    [] cond = "testAndCover" -> data.test /\ data.cover
    [] cond = "testAndCoverHTML" -> data.test /\ data.coverHTML
    [] cond = "testRace" -> data.testRace
    [] cond = "race" -> data.race
    [] cond = "cpuProfile" -> data.cpuProfile
    [] cond = "memProfile" -> data.memProfile

\* mutation: the {{else}} list is executed whatever the pipeline gave
Taken_elseAlways(br, data) == br.neg \/ Eval(br.cond, data)

\* the list of an {{if}} is executed when its pipeline is true, its {{else}}
\* list when it is false
Taken(br, data) == IF br.neg THEN ~Eval(br.cond, data) ELSE Eval(br.cond, data)

templ == Parse(makefileTemplate)

\* templ.Execute: the text nodes reached by the walk, in template order
Execute(tree, data) ==
  LET Reached(n) == \A br \in n.branches : Taken(br, data)
      reached == SelectSeq(tree, Reached)
  IN [i \in 1..Len(reached) |-> reached[i].s]

\* ------------------------------------------------------- normalisation
\* first index of the run of NL tokens that p lies in
RunStart(b, p) ==
  CHOOSE r \in 1..p :
    /\ \A m \in r..p : b[m] = NL
    /\ r = 1 \/ b[r - 1] # NL

\* index just after the run of NL tokens that p lies in
RunEnd(b, p) ==
  CHOOSE e \in (p + 1)..(Len(b) + 1) :
    /\ \A m \in p..(e - 1) : b[m] = NL
    /\ e = Len(b) + 1 \/ b[e] # NL

\* mutation: the pattern matches two newlines only (no greedy +)
MatchLen_pairOnly(n) == IF n >= 2 THEN 2 ELSE n

\* length of the match of "\n\n+" at the start of n newlines, n >= 2 (greedy)
MatchLen(n) == n

\* what ReplaceAll leaves of a run of n newlines: every match, found from
\* left to right, becomes two newlines; what no match covers stays
RECURSIVE ReplacedRun(_)
ReplacedRun(n) ==
  IF n < 2 THEN [i \in 1..n |-> NL]
  ELSE << NL, NL >> \o ReplacedRun(n - MatchLen(n))

\* regexp.Compile("\n\n+").ReplaceAll(b, "\n\n"): the text outside the runs
\* of newlines is copied, each run is replaced as above
ReplaceAll(b) ==
  LET at == [p \in 1..Len(b) |->
               [tok |-> b[p],
                keep |-> \/ b[p] # NL
                         \/ LET r == RunStart(b, p)
                            IN p - r + 1 <= Len(ReplacedRun(RunEnd(b, p) - r))]]
      Kept(x) == x.keep
      kept == SelectSeq(at, Kept)
  IN [i \in 1..Len(kept) |-> kept[i].tok]

\* ------------------------------------------------------------- main()
Toggles == {"test", "bench", "shadow", "cover", "coverHTML", "cpuProfile",
            "memProfile", "race", "testRace", "library"}

\* values given to -mod: not given, or a source control path
ModPaths == {"", "github.com/user/project"}

UsageMsg == "Expected use: maker DIRNAME"
VersionMsg == "Version: dev"
FlagUsageMsg == "Usage of maker"

VARIABLES
  pc,        \* position in main()
  flags,     \* the values of the boolean flags, as the map passed to Execute
  version,   \* -version
  mod,       \* -mod
  nargs,     \* len(flag.Args())
  buffer,    \* bytes.Buffer the template is executed into
  cleanBuf,  \* the buffer after the regexp replacement
  dirCreated,\* the target directory exists because this run created it
  files,     \* names of the files this run has written
  makefile,  \* content written to DIRNAME/Makefile
  fsLog,     \* the filesystem calls made so far, in order, with their outcome
  stdout,    \* what was printed
  exitCode   \* process exit status (-1 while running)

vars == << pc, flags, version, mod, nargs, buffer, cleanBuf, dirCreated, files,
           makefile, fsLog, stdout, exitCode >>

Init ==
  /\ pc = "parse"
  /\ flags = [x \in Toggles |-> FALSE]
  /\ version = FALSE
  /\ mod = ""
  /\ nargs = 0
  /\ buffer = << >>
  /\ cleanBuf = << >>
  /\ dirCreated = FALSE
  /\ files = {}
  /\ makefile = << >>
  /\ fsLog = << >>
  /\ stdout = ""
  /\ exitCode = -1

\* flag.Parse() accepts the command line
FlagParse ==
  /\ pc = "parse"
  /\ \E f \in [Toggles -> BOOLEAN], v \in BOOLEAN, m \in ModPaths, n \in 0..MaxArgs :
       /\ flags' = f
       /\ version' = v
       /\ mod' = m
       /\ nargs' = n
  /\ pc' = "checkVersion"
  /\ UNCHANGED << buffer, cleanBuf, dirCreated, files, makefile, fsLog, stdout, exitCode >>

\* flag.Parse() rejects the command line (flag.ExitOnError): the flag usage is
\* printed and the process exits with 2, or with 0 for -h on toolchains that
\* treat a request for help as success
FlagParseError ==
  /\ pc = "parse"
  /\ \E n \in 0..MaxArgs, code \in {0, 2} :
       /\ nargs' = n
       /\ exitCode' = code
  /\ stdout' = FlagUsageMsg
  /\ pc' = "exit"
  /\ UNCHANGED << flags, version, mod, buffer, cleanBuf, dirCreated, files, makefile, fsLog >>

\* if *v { fmt.Printf(...); os.Exit(0) }
ShowVersion ==
  /\ pc = "checkVersion"
  /\ version
  /\ stdout' = VersionMsg
  /\ exitCode' = 0
  /\ pc' = "exit"
  /\ UNCHANGED << flags, version, mod, nargs, buffer, cleanBuf, dirCreated, files, makefile, fsLog >>

\* mutation: only a missing DIRNAME is rejected
Usage_onlyMissing ==
  /\ pc = "checkVersion"
  /\ ~version
  /\ nargs < 1
  /\ stdout' = UsageMsg
  /\ exitCode' = 1
  /\ pc' = "exit"
  /\ UNCHANGED << flags, version, mod, nargs, buffer, cleanBuf, dirCreated, files, makefile, fsLog >>

\* if len(flag.Args()) != 1 { fmt.Println(...); os.Exit(1) }
Usage ==
  /\ pc = "checkVersion"
  /\ ~version
  /\ nargs # 1
  /\ stdout' = UsageMsg
  /\ exitCode' = 1
  /\ pc' = "exit"
  /\ UNCHANGED << flags, version, mod, nargs, buffer, cleanBuf, dirCreated, files, makefile, fsLog >>

\* template.Must(...Parse(makefileTemplate)) and templ.Execute(&buffer, map):
\* the template is well formed and every pipeline is a boolean of the map, so
\* neither panics.  Taken whenever neither exit above was.
ExecuteTemplate ==
  /\ pc = "checkVersion"
  /\ ~version
  /\ ~ENABLED Usage
  /\ buffer' = Execute(templ, flags)
  /\ pc' = "mkdir"
  /\ UNCHANGED << flags, version, mod, nargs, cleanBuf, dirCreated, files, makefile, fsLog, stdout, exitCode >>

Panic ==
  /\ pc' = "exit"
  /\ exitCode' = 2

\* mutation: the error of os.Mkdir is dropped
Mkdir_errIgnored ==
  /\ pc = "mkdir"
  /\ \E ok \in BOOLEAN :
       /\ fsLog' = Append(fsLog, [op |-> "mkdir", ok |-> ok])
       /\ dirCreated' = ok
       /\ pc' = "normalize"
       /\ UNCHANGED exitCode
  /\ UNCHANGED << flags, version, mod, nargs, buffer, cleanBuf, files, makefile, stdout >>

\* err = os.Mkdir(dirName, os.ModePerm); if err != nil { panic(err) }
Mkdir ==
  /\ pc = "mkdir"
  /\ \E ok \in BOOLEAN :
       /\ fsLog' = Append(fsLog, [op |-> "mkdir", ok |-> ok])
       /\ dirCreated' = ok
       /\ IF ok THEN pc' = "normalize" /\ UNCHANGED exitCode ELSE Panic
  /\ UNCHANGED << flags, version, mod, nargs, buffer, cleanBuf, files, makefile, stdout >>

\* cleanBuf := regex.ReplaceAll(buffer.Bytes(), []byte("\n\n"))
Normalize ==
  /\ pc = "normalize"
  /\ cleanBuf' = ReplaceAll(buffer)
  /\ pc' = "writeMakefile"
  /\ UNCHANGED << flags, version, mod, nargs, buffer, dirCreated, files, makefile, fsLog, stdout, exitCode >>

\* ioutil.WriteFile(name, ...) followed by if err != nil { panic(err) }
WriteFile(name, next) ==
  \E ok \in BOOLEAN :
    /\ fsLog' = Append(fsLog, [op |-> name, ok |-> ok])
    /\ files' = IF ok THEN files \cup {name} ELSE files
    /\ IF ok THEN pc' = next /\ UNCHANGED exitCode ELSE Panic

WriteMakefile ==
  /\ pc = "writeMakefile"
  /\ WriteFile("Makefile", "writeSource")
  /\ makefile' = IF "Makefile" \in files' THEN cleanBuf ELSE makefile
  /\ UNCHANGED << flags, version, mod, nargs, buffer, cleanBuf, dirCreated, stdout >>

\* main.go for an executable, DIRNAME.go for a library
WriteSource ==
  /\ pc = "writeSource"
  /\ WriteFile(IF ~flags.library THEN "main.go" ELSE "DIRNAME.go", "writeMod")
  /\ UNCHANGED << flags, version, mod, nargs, buffer, cleanBuf, dirCreated, makefile, stdout >>

\* if *m != "" { write go.mod }
WriteMod ==
  /\ pc = "writeMod"
  /\ IF mod # ""
     THEN WriteFile("go.mod", "writeGitignore")
     ELSE pc' = "writeGitignore" /\ UNCHANGED << fsLog, files, exitCode >>
  /\ UNCHANGED << flags, version, mod, nargs, buffer, cleanBuf, dirCreated, makefile, stdout >>

WriteGitignore ==
  /\ pc = "writeGitignore"
  /\ \E ok \in BOOLEAN :
       /\ fsLog' = Append(fsLog, [op |-> ".gitignore", ok |-> ok])
       /\ files' = IF ok THEN files \cup {".gitignore"} ELSE files
       /\ pc' = "exit"
       /\ exitCode' = IF ok THEN 0 ELSE 2
  /\ UNCHANGED << flags, version, mod, nargs, buffer, cleanBuf, dirCreated, makefile, stdout >>

Next ==
  \/ FlagParse
  \/ FlagParseError
  \/ ShowVersion
  \/ Usage
  \/ ExecuteTemplate
  \/ Mkdir
  \/ Normalize
  \/ WriteMakefile
  \/ WriteSource
  \/ WriteMod
  \/ WriteGitignore

Spec == Init /\ [][Next]_vars

\* ------------------------------------------------- reading the recipe
AllTrue == \A x \in Toggles : flags[x]
AllFalse == \A x \in Toggles : ~flags[x]

\* the Makefile has been written; `makefile` is its content
Written == "Makefile" \in files

Has(tok, b) == \E i \in 1..Len(b) : b[i] = tok
Count(tok, b) == Cardinality({i \in 1..Len(b) : b[i] = tok})

\* the target a header line declares ("" for any other token)
TargetOf(tok) ==
  CASE tok = FmtHdr -> "fmt"
    [] tok = LintHdr -> "lint"
    [] tok = VetHdr -> "vet"
    [] tok = BuildBinHdr -> "build"
    [] tok = BuildLibHdr -> "build"
    [] tok = RunHdr -> "run"
    [] tok = CleanHdr -> "clean"
    [] tok = TestHdr -> "test"
    [] tok = BenchHdr -> "bench"
    [] tok = CoverHdr -> "test-cover"
    [] tok = CoverHTMLHdr -> "test-cover-html"
    [] tok = TestRaceHdr -> "test-race"
    [] tok = BuildRaceHdr -> "build-race"
    [] tok = CpuHdr -> "test-cpu"
    [] tok = MemHdr -> "test-mem"
    [] tok = HelpHdr -> "help"
    [] OTHER -> ""

CatalogOrder ==
  << "fmt", "lint", "vet", "build", "clean", "test", "bench", "test-cover",
     "test-cover-html", "test-race", "build-race", "test-cpu", "test-mem", "help" >>

InCatalog(name) == \E i \in 1..Len(CatalogOrder) : CatalogOrder[i] = name
CatalogIndex(name) == CHOOSE i \in 1..Len(CatalogOrder) : CatalogOrder[i] = name

\* the targets declared in b, in the order of their header lines
Targets(b) ==
  LET IsHdr(tok) == TargetOf(tok) # ""
      hdrs == SelectSeq(b, IsHdr)
  IN [i \in 1..Len(hdrs) |-> TargetOf(hdrs[i])]

\* the fragments of the catalog present in b, in order (`run` belongs to the
\* executable build fragment and is no catalog entry of its own)
Fragments(b) == SelectSeq(Targets(b), InCatalog)

\* the text of b without its newlines
Content(b) ==
  LET NotNL(tok) == tok # NL IN SelectSeq(b, NotNL)

\* the text the template emits only under a toggle other than library
OptionalToks ==
  { templ[i].s : i \in { j \in 1..Len(templ) :
                           /\ templ[j].s # NL
                           /\ templ[j].branches # {}
                           /\ \A br \in templ[j].branches : br.cond # "notLibrary" } }

\* header position i has exactly one blank line before it
OneBlankBefore(b, i) ==
  /\ i > 3
  /\ b[i - 1] = NL
  /\ b[i - 2] = NL
  /\ b[i - 3] # NL

\* tok1, NL, tok2 follow each other somewhere in b
LineThenLine(tok1, tok2, b) ==
  \E i \in 1..(Len(b) - 2) : b[i] = tok1 /\ b[i + 1] = NL /\ b[i + 2] = tok2

\* the tokens of line, one after another, make up a whole line of b
WholeLine(line, b) ==
  \E i \in 1..(Len(b) - Len(line) - 1) :
    /\ b[i] = NL
    /\ \A n \in 1..Len(line) : b[i + n] = line[n]
    /\ b[i + Len(line) + 1] = NL

\* ----------------------------------------------------------------- C1
\* C1: with all toggles true the recipe contains every fragment of the
\* catalog exactly once, in catalog order, and every target header is
\* separated from what precedes it by exactly one blank line.
C1_FullScenario ==
  (Written /\ AllTrue) =>
    /\ Fragments(makefile) = CatalogOrder
    /\ \A i \in 1..Len(makefile) :
         TargetOf(makefile[i]) # "" => OneBlankBefore(makefile, i)

\* ----------------------------------------------------------------- C2
\* C2 as stated: with every toggle false the recipe declares exactly the
\* targets fmt, vet, build and help, in that order.
C2_MinimalAsStated ==
  (Written /\ AllFalse) => Targets(makefile) = << "fmt", "vet", "build", "help" >>

\* C2 amended: with every toggle false the recipe declares exactly the
\* unconditional targets fmt, lint, vet, build (the executable variant, with
\* run), clean and help, in that order, and nothing of an optional block.
C2_Minimal ==
  (Written /\ AllFalse) =>
    /\ Targets(makefile) = << "fmt", "lint", "vet", "build", "run", "clean", "help" >>
    /\ Has(BuildBinHdr, makefile)
    /\ \A tok \in OptionalToks : ~Has(tok, makefile)

C2_Witness == Written /\ AllFalse /\ Has(HelpHdr, makefile)

\* ----------------------------------------------------------------- C3
\* C3: for every toggle assignment the recipe has exactly one build block,
\* the executable one iff library is false, the library one iff it is true.
C3_OneBuild ==
  Written =>
    /\ Count(BuildBinHdr, makefile) + Count(BuildLibHdr, makefile) = 1
    /\ Has(BuildBinHdr, makefile) <=> ~flags.library
    /\ Has(BuildLibHdr, makefile) <=> flags.library
    /\ Has(RunHdr, makefile) <=> ~flags.library

C3_Witness ==
  Written /\ flags.library /\ flags.test /\ flags.race /\ Has(BuildLibHdr, makefile)

\* ----------------------------------------------------------------- C4
\* C4: the test-cover-html block is in the recipe, whole, iff test and
\* coverHTML are both true, and the test-cover block iff test and cover are
\* both true; otherwise no line of the block is in the recipe.
C4_Compound ==
  Written =>
    /\ IF flags.test /\ flags.coverHTML
       THEN /\ Count(CoverHTMLHdr, makefile) = 1
            /\ LineThenLine(CoverHTMLHdr, CoverHTMLCmd1, makefile)
            /\ LineThenLine(CoverHTMLCmd1, CoverHTMLCmd2, makefile)
       ELSE \A tok \in {CoverHTMLHdr, CoverHTMLCmd1, CoverHTMLCmd2} : ~Has(tok, makefile)
    /\ IF flags.test /\ flags.cover
       THEN /\ Count(CoverHdr, makefile) = 1
            /\ LineThenLine(CoverHdr, CoverCmd, makefile)
       ELSE \A tok \in {CoverHdr, CoverCmd} : ~Has(tok, makefile)

C4_Witness ==
  Written /\ ~flags.test /\ flags.coverHTML /\ flags.cover /\ exitCode = 0

\* ----------------------------------------------------------------- C5
\* C5: the fragments present in the recipe are in catalog order, fmt comes
\* before vet, and the normalisation leaves the text in the order the
\* template emitted it.
C5_CatalogOrder ==
  Written =>
    /\ LET fr == Fragments(makefile)
       IN \A i, j \in 1..Len(fr) :
            i < j => CatalogIndex(fr[i]) < CatalogIndex(fr[j])
    /\ \E i, j \in 1..Len(makefile) :
         i < j /\ makefile[i] = FmtHdr /\ makefile[j] = VetHdr
    /\ Content(makefile) = Content(buffer)

C5_Witness ==
  Written /\ flags.test /\ flags.bench /\ flags.memProfile /\ ~flags.cpuProfile
    /\ Has(TestHdr, makefile) /\ Has(BenchHdr, makefile)

\* ----------------------------------------------------------------- C6
\* C6: the recipe written to the Makefile has no three newlines in a row,
\* and normalising it again gives the same text.
C6_Normalized ==
  Written =>
    /\ \A i \in 1..(Len(makefile) - 2) :
         ~(makefile[i] = NL /\ makefile[i + 1] = NL /\ makefile[i + 2] = NL)
    /\ ReplaceAll(makefile) = makefile

\* the template's output had a run of three newlines, which was collapsed
C6_Witness ==
  /\ Written
  /\ \E i \in 1..(Len(buffer) - 2) :
       buffer[i] = NL /\ buffer[i + 1] = NL /\ buffer[i + 2] = NL
  /\ Len(makefile) < Len(buffer)

\* ----------------------------------------------------------------- C7
\* C7: the first filesystem call of a run is the creation of the directory;
\* no file is written unless it succeeded, and when it fails the run ends
\* in a panic with no write attempted.
C7_MkdirFirst ==
  /\ fsLog # << >> => fsLog[1].op = "mkdir"
  /\ files # {} => dirCreated
  /\ Len(fsLog) > 1 => fsLog[1].ok
  /\ (fsLog # << >> /\ ~fsLog[1].ok) =>
       /\ pc = "exit"
       /\ exitCode = 2
       /\ files = {}
       /\ ~dirCreated

C7_Witness ==
  /\ pc = "exit"
  /\ fsLog = << [op |-> "mkdir", ok |-> FALSE] >>
  /\ files = {}

\* ----------------------------------------------------------------- C8
\* an invocation the flag package accepted
Parsed == pc # "parse" /\ stdout # FlagUsageMsg

\* C8 as stated: every invocation with other than one positional argument,
\* whatever flags are set, ends with the usage message and a non-zero exit
\* code, and creates no directory and writes no file.
C8_UsageAsStated ==
  (pc = "exit" /\ Parsed /\ nargs # 1) =>
    /\ stdout = UsageMsg
    /\ exitCode # 0
    /\ fsLog = << >>
    /\ files = {}

\* C8 amended: an invocation with other than one positional argument and
\* without -version ends with the usage message and exit code 1; with
\* -version it prints the version and exits with 0; in both cases no
\* directory is created and no file is written.
C8_Usage ==
  (Parsed /\ nargs # 1) =>
    /\ fsLog = << >>
    /\ files = {}
    /\ ~dirCreated
    /\ pc \in {"checkVersion", "exit"}
    /\ pc = "exit" =>
         IF version
         THEN stdout = VersionMsg /\ exitCode = 0
         ELSE stdout = UsageMsg /\ exitCode = 1

C8_Witness ==
  /\ pc = "exit"
  /\ nargs = 2
  /\ ~version
  /\ flags.test
  /\ mod # ""
  /\ stdout = UsageMsg
  /\ exitCode = 1

\* ----------------------------------------------------------------- C9
\* C9: the test-cpu block is in the recipe iff cpuProfile is true and the
\* test-mem block iff memProfile is true, whatever bench is; the go test
\* line of a profiling block carries `-bench=. -benchmem` iff bench is true.
C9_Profiling ==
  Written =>
    /\ Has(CpuHdr, makefile) <=> flags.cpuProfile
    /\ Has(MemHdr, makefile) <=> flags.memProfile
    /\ WholeLine(<< GoTestPrefix, BenchFlags, CpuTail >>, makefile)
         <=> (flags.cpuProfile /\ flags.bench)
    /\ WholeLine(<< GoTestPrefix, CpuTail >>, makefile)
         <=> (flags.cpuProfile /\ ~flags.bench)
    /\ WholeLine(<< GoTestPrefix, BenchFlags, MemTail >>, makefile)
         <=> (flags.memProfile /\ flags.bench)
    /\ WholeLine(<< GoTestPrefix, MemTail >>, makefile)
         <=> (flags.memProfile /\ ~flags.bench)
    /\ Count(BenchFlags, makefile)
         = (IF flags.bench /\ flags.cpuProfile THEN 1 ELSE 0)
           + (IF flags.bench /\ flags.memProfile THEN 1 ELSE 0)

C9_Witness ==
  /\ Written
  /\ flags.bench
  /\ flags.cpuProfile
  /\ ~flags.memProfile
  /\ Has(BenchFlags, makefile)

\* ---------------------------------------------------------------- C10
\* the pieces of a go test line that continue it
Continuations == {BenchFlags, CpuTail, MemTail}

\* C10: every target header and every recipe command of the recipe starts
\* a line of its own: it is the first token or follows a newline.
C10_OwnLine ==
  Written =>
    \A i \in 2..Len(makefile) :
      (makefile[i] # NL /\ makefile[i] \notin Continuations) => makefile[i - 1] = NL

====
